---- MODULE Spec2Model ----
(***************************************************************************)
(* World synchronization layer of toolmax (src/src/world.js): the static   *)
(* and dynamic composites, the add/remove listeners, the join/disconnect   *)
(* handlers, the regular update broadcast and the bag spawner.             *)
(*                                                                         *)
(* Numbers are fixed point: a value v of the program is the integer        *)
(* v * Scale of the model.                                                 *)
(***************************************************************************)
EXTENDS Integers, Sequences, FiniteSets, TLC

VARIABLES known, static, dynamic, socketIds, player, conn, nextId, out, removed,
          view

\* out: what the last handler did, in order (its calls into the transport and
\* its changes of the collections); removed: the ids removed from a collection
\* and not added since; view: for each socket, the ids its client holds after
\* the 'add' and 'remove' messages delivered to it (kept under SpecView only)
vars == <<known, static, dynamic, socketIds, player, conn, nextId, out, removed,
          view>>

\* ----------------------------------------------------------------- bounds
\* sockets that ever connect
MaxConns == 2
\* bodies created after the terrain (players and bags together)
MaxBodies == 3

\* bodies the change feed is called with, and the longest array of them
MaxFeed == 4
MaxBatch == 2

\* positions and angles the rounding is tried on: -MaxRound/8 .. MaxRound/8
MaxRound == 12

\* fixed-point unit: 1.0 of the program is Scale of the model
Scale == 1000
\* id of the terrain body, the first body created
TerrainId == 1

Conns == 1..MaxConns
Nicknames == {"bob"}
\* value of `player` before the first join
Undefined == 0

\* --------------------------------------------------------------- numbers
\* Math.round of the fixed-point value v, as a fixed-point value:
\* the nearest integer, a tie going up
MathRound(v) == ((2 * v + Scale) \div (2 * Scale)) * Scale

\* the angle rounding without its division by 100
RoundAngleNoDivide(a) == ((2 * a * 100 + Scale) \div (2 * Scale)) * Scale

\* Math.round(angle * 100) / 100
RoundAngle(a) == ((2 * a * 100 + Scale) \div (2 * Scale)) * (Scale \div 100)

\* values of Math.random(), in [0, 1), one tuple per spawn:
\* x, y, points, sword, shield
RandomDraws == { <<0, 999, 0, 999, 0>>,
                 <<999, 0, 950, 375, 125>> }

\* position, angle the engine may move an awake body to
Poses == { [x |-> 0, y |-> -300 * Scale, angle |-> 0],
           [x |-> 12500, y |-> -7500, angle |-> -3145] }

\* ---------------------------------------------------------------- bodies
\* the terrain body
Terrain ==
  [id |-> TerrainId, position |-> [x |-> 0, y |-> 0], angle |-> 0,
   friction |-> 10, isStatic |-> TRUE, isSleeping |-> FALSE]

\* the player body of the join handler
createPlayer(id, nickname) ==
  [id |-> id, position |-> [x |-> 0, y |-> -300 * Scale], angle |-> 0,
   isStatic |-> FALSE, isSleeping |-> FALSE,
   mass |-> 500, friction |-> 10, shape |-> "player", nickname |-> nickname,
   health |-> 100 * Scale, tokens |-> 100 * Scale, sword |-> 0, shield |-> 0]

createBag(id, x, y, points, sword, shield) ==
  [id |-> id, position |-> [x |-> x, y |-> y], angle |-> 0,
   isStatic |-> TRUE, isSleeping |-> FALSE,
   mass |-> 100, friction |-> 1, isSensor |-> TRUE, shape |-> "bag",
   points |-> points, sword |-> sword, shield |-> shield]

\* ------------------------------------------------- one body or an array
One(b) == [kind |-> "one", value |-> b]
Many(bs) == [kind |-> "many", value |-> bs]

\* [].concat(object)
Concat(object) == IF object.kind = "many" THEN object.value ELSE <<object.value>>

isArray(object) == object.kind = "many"

Ids(bodies) == { bodies[i].id : i \in 1..Len(bodies) }

\* ------------------------------------------------------------ renderInfo
\* renderInfo giving every record an angle
bodyInfoAlways(body) ==
  [id |-> body.id, shape |-> body.shape, position |-> body.position,
   angle |-> body.angle]

\* the record renderInfo makes of one body
bodyInfo(body) ==
  IF "shape" \in DOMAIN body /\ body.shape = "player"
  THEN [id |-> body.id, shape |-> body.shape, position |-> body.position,
        angle |-> body.angle]
  ELSE [id |-> body.id,
        shape |-> IF "shape" \in DOMAIN body THEN body.shape ELSE "undefined",
        position |-> body.position]

\* objects.map(body => bodyInfo)
renderInfo(object) ==
  LET objects == Concat(object)
  IN  [i \in 1..Len(objects) |-> bodyInfo(objects[i])]

\* --------------------------------------------------------------- effects
\* sockets a broadcast of io reaches
Connected == { c \in Conns : conn[c] = "connected" }

\* via "io": io.emit, to every connected socket; via "socket": socket.emit
Emit(event, via, to, volatile, payload) ==
  [ev |-> "emit", event |-> event, via |-> via, to |-> to,
   volatile |-> volatile, payload |-> payload]

\* io.emit('add', info.length === 1 ? info[0] : info)
afterAdd(object, to) ==
  LET info == renderInfo(object)
  IN  Emit("add", "io", to, FALSE, IF Len(info) = 1 THEN One(info[1]) ELSE Many(info))

\* io.emit('remove', Array.isArray(object) ? object.map(b => b.id) : object.id)
afterRemove(object, to) ==
  Emit("remove", "io", to, FALSE,
       IF isArray(object)
       THEN Many([i \in 1..Len(object.value) |-> object.value[i].id])
       ELSE One(object.value.id))

\* Composite.add(composite, object): the bodies array afterwards
CompositeAdd(bodies, object) == bodies \o Concat(object)

\* Composite.remove(composite, object): the bodies array afterwards
CompositeRemove(bodies, object) ==
  LET gone == Ids(Concat(object))
      keep(b) == b.id \notin gone
  IN  SelectSeq(bodies, keep)

\* ------------------------------------------------------------------ init
\* createWorld and manageConnections
Init ==
  /\ known = <<Terrain>>
  /\ static = <<>>
  /\ dynamic = <<>>
  /\ socketIds = {}
  /\ player = [c \in Conns |-> Undefined]
  /\ conn = [c \in Conns |-> "idle"]
  /\ nextId = TerrainId + 1
  /\ out = <<>>
  /\ removed = {}
  /\ view = [c \in Conns |-> {}]

\* io.on('connection', socket => ...)
Connect(c) ==
  /\ conn[c] = "idle"
  /\ conn' = [conn EXCEPT ![c] = "connected"]
  /\ out' = <<>>
  /\ UNCHANGED <<known, static, dynamic, socketIds, player, nextId, removed>>

\* ---------------------------------------------------------------- engine
\* Runner.run(runner, engine): one engine update moves an awake dynamic body
\* or changes its sleep flag; static bodies never move
EngineUpdate(i, pose, sleeping) ==
  /\ i \in 1..Len(dynamic)
  /\ dynamic' = [dynamic EXCEPT ![i] =
        IF sleeping
        THEN [@ EXCEPT !.isSleeping = TRUE]
        ELSE [@ EXCEPT !.isSleeping = FALSE,
                       !.position = [x |-> pose.x, y |-> pose.y],
                       !.angle = pose.angle]]
  /\ out' = <<>>
  /\ UNCHANGED <<known, static, socketIds, player, conn, nextId, removed>>

\* --------------------------------------------------------------- spawner
\* the spawner with y = 500 + 600 * Math.random()
SpawnWrongY(draw) ==
  /\ nextId <= TerrainId + MaxBodies
  /\ LET bag == createBag(nextId,
                   MathRound(-400 * Scale + 800 * draw[1]),
                   MathRound(500 * Scale + 600 * draw[2]),
                   MathRound(draw[3] * 10),
                   MathRound(draw[4] * 4),
                   MathRound(draw[5] * 4))
     IN  /\ static' = CompositeAdd(static, One(bag))
         /\ out' = << [ev |-> "insert", into |-> "static", id |-> bag.id],
                      afterAdd(One(bag), Connected) >>
  /\ removed' = removed \ {nextId}
  /\ nextId' = nextId + 1
  /\ UNCHANGED <<known, dynamic, socketIds, player, conn>>

\* the interval of createWorld: one bag at a random place
Spawn(draw) ==
  /\ nextId <= TerrainId + MaxBodies
  /\ LET bag == createBag(nextId,
                   MathRound(-400 * Scale + 800 * draw[1]),
                   MathRound(500 * Scale - 600 * draw[2]),
                   MathRound(draw[3] * 10),
                   MathRound(draw[4] * 4),
                   MathRound(draw[5] * 4))
     IN  /\ static' = CompositeAdd(static, One(bag))
         /\ out' = << [ev |-> "insert", into |-> "static", id |-> bag.id],
                      afterAdd(One(bag), Connected) >>
  /\ removed' = removed \ {nextId}
  /\ nextId' = nextId + 1
  /\ UNCHANGED <<known, dynamic, socketIds, player, conn>>

\* ----------------------------------------------------------- connections
\* socketIds.set(key, value) and socketIds.delete(key)
MapSet(m, key, value) ==
  { e \in m : e.player # key } \cup { [player |-> key, socket |-> value] }

MapDelete(m, key) == { e \in m : e.player # key }

\* every body of the world, the terrain included
PreexistingWithKnown == known \o static \o dynamic

\* static.bodies.concat(dynamic.bodies)
Preexisting == static \o dynamic

\* the join handler with sendId called last
JoinEffectsIdLast(c, p) ==
  LET info == renderInfo(Many(Preexisting))
  IN  << [ev |-> "bind", id |-> p.id, socket |-> c] >>
      \o (IF Len(info) > 0 THEN << Emit("add", "socket", {c}, FALSE, Many(info)) >> ELSE <<>>)
      \o << [ev |-> "insert", into |-> "dynamic", id |-> p.id],
            afterAdd(One(p), Connected),
            [ev |-> "sendId", to |-> c, id |-> p.id] >>

\* the join handler without its `info.length > 0` test
JoinEffectsAlwaysSnapshot(c, p) ==
  LET info == renderInfo(Many(Preexisting))
  IN  << [ev |-> "bind", id |-> p.id, socket |-> c],
         [ev |-> "sendId", to |-> c, id |-> p.id],
         Emit("add", "socket", {c}, FALSE, Many(info)),
         [ev |-> "insert", into |-> "dynamic", id |-> p.id],
         afterAdd(One(p), Connected) >>

\* the join handler with the player's 'add' broadcast to the other sockets only
JoinEffectsToOthers(c, p) ==
  LET info == renderInfo(Many(Preexisting))
  IN  << [ev |-> "bind", id |-> p.id, socket |-> c],
         [ev |-> "sendId", to |-> c, id |-> p.id] >>
      \o (IF Len(info) > 0 THEN << Emit("add", "socket", {c}, FALSE, Many(info)) >> ELSE <<>>)
      \o << [ev |-> "insert", into |-> "dynamic", id |-> p.id],
            afterAdd(One(p), Connected \ {c}) >>

\* what the join handler does, in order, with the new player p
JoinEffects(c, p) ==
  LET info == renderInfo(Many(Preexisting))
  IN  << [ev |-> "bind", id |-> p.id, socket |-> c],
         [ev |-> "sendId", to |-> c, id |-> p.id] >>
      \o (IF Len(info) > 0 THEN << Emit("add", "socket", {c}, FALSE, Many(info)) >> ELSE <<>>)
      \o << [ev |-> "insert", into |-> "dynamic", id |-> p.id],
            afterAdd(One(p), Connected) >>

\* the join handler with Composite.add moved before the private snapshot
JoinAddFirst(c, nickname) ==
  /\ conn[c] = "connected"
  /\ nextId <= TerrainId + MaxBodies
  /\ LET p == createPlayer(nextId, nickname)
         info == renderInfo(Many(static \o CompositeAdd(dynamic, One(p))))
     IN  /\ player' = [player EXCEPT ![c] = p.id]
         /\ socketIds' = MapSet(socketIds, p.id, c)
         /\ out' = << [ev |-> "bind", id |-> p.id, socket |-> c],
                      [ev |-> "sendId", to |-> c, id |-> p.id],
                      [ev |-> "insert", into |-> "dynamic", id |-> p.id],
                      afterAdd(One(p), Connected),
                      Emit("add", "socket", {c}, FALSE, Many(info)) >>
         /\ dynamic' = CompositeAdd(dynamic, One(p))
  /\ removed' = removed \ {nextId}
  /\ nextId' = nextId + 1
  /\ UNCHANGED <<known, static, conn>>

\* socket.on('join', (nickname, sendId) => ...)
Join(c, nickname) ==
  /\ conn[c] = "connected"
  /\ nextId <= TerrainId + MaxBodies
  /\ LET p == createPlayer(nextId, nickname)
     IN  /\ player' = [player EXCEPT ![c] = p.id]
         /\ socketIds' = MapSet(socketIds, p.id, c)
         /\ out' = JoinEffects(c, p)
         /\ dynamic' = CompositeAdd(dynamic, One(p))
  /\ removed' = removed \ {nextId}
  /\ nextId' = nextId + 1
  /\ UNCHANGED <<known, static, conn>>

\* the body `player` refers to
BodyOf(id) ==
  IF id \in Ids(dynamic)
  THEN CHOOSE b \in { dynamic[i] : i \in 1..Len(dynamic) } : b.id = id
  ELSE [id |-> id]

\* pop removing from the wrong composite: dynamic keeps the body
popWrongComposite(entity) == dynamic

\* pop(entity): the bodies of dynamic afterwards
pop(entity) == CompositeRemove(dynamic, One(entity))

\* the disconnect handler without its `if (!player) return`
DisconnectUnguarded(c) ==
  /\ conn[c] = "connected"
  /\ conn' = [conn EXCEPT ![c] = "closed"]
  /\ LET entity == BodyOf(player[c])
     IN  /\ dynamic' = pop(entity)
         /\ out' = << [ev |-> "remove", from |-> "dynamic", id |-> entity.id],
                      afterRemove(One(entity), Connected \ {c}),
                      [ev |-> "unbind", id |-> entity.id] >>
         /\ socketIds' = MapDelete(socketIds, entity.id)
         /\ removed' = removed \cup {entity.id}
  /\ UNCHANGED <<known, static, player, nextId>>

\* socket.on('disconnect', () => ...)
Disconnect(c) ==
  /\ conn[c] = "connected"
  /\ conn' = [conn EXCEPT ![c] = "closed"]
  /\ IF player[c] = Undefined
     THEN /\ out' = <<>>
          /\ UNCHANGED <<dynamic, socketIds, removed>>
     ELSE LET entity == BodyOf(player[c])
          IN  /\ dynamic' = pop(entity)
              /\ out' = << [ev |-> "remove", from |-> "dynamic", id |-> entity.id],
                           afterRemove(One(entity), Connected \ {c}),
                           [ev |-> "unbind", id |-> entity.id] >>
              /\ socketIds' = MapDelete(socketIds, entity.id)
              /\ removed' = removed \cup {entity.id}
  /\ UNCHANGED <<known, static, player, nextId>>

\* --------------------------------------------------------------- updates
\* the update without its isSleeping test
everyBody(b) == TRUE

\* b.isSleeping ? [] : {...}: the bodies the regular update reports
Sampled(b) == ~b.isSleeping

updateRecord(b) ==
  [i |-> b.id, x |-> MathRound(b.position.x), y |-> MathRound(b.position.y),
   r |-> RoundAngle(b.angle)]

\* the update not emitted when no body is awake
TickSkipEmpty ==
  /\ LET bodies == SelectSeq(dynamic, Sampled)
         gamestate == [i \in 1..Len(bodies) |-> updateRecord(bodies[i])]
     IN  out' = IF gamestate = <<>> THEN <<>>
                ELSE << Emit("update", "io", Connected, TRUE, Many(gamestate)) >>
  /\ UNCHANGED <<known, static, dynamic, socketIds, player, conn, nextId, removed>>

\* the interval of emitRegularUpdates
Tick ==
  /\ LET bodies == SelectSeq(dynamic, Sampled)
         gamestate == [i \in 1..Len(bodies) |-> updateRecord(bodies[i])]
     IN  out' = << Emit("update", "io", Connected, TRUE, Many(gamestate)) >>
  /\ UNCHANGED <<known, static, dynamic, socketIds, player, conn, nextId, removed>>

Next ==
  \/ \E c \in Conns : Connect(c) /\ UNCHANGED view
  \/ \E c \in Conns, nickname \in Nicknames : Join(c, nickname) /\ UNCHANGED view
  \/ \E c \in Conns : Disconnect(c) /\ UNCHANGED view
  \/ \E i \in 1..MaxBodies, pose \in Poses, sleeping \in BOOLEAN :
        EngineUpdate(i, pose, sleeping) /\ UNCHANGED view
  \/ \E draw \in RandomDraws : Spawn(draw) /\ UNCHANGED view
  \/ Tick /\ UNCHANGED view

Spec == Init /\ [][Next]_vars

\* setInterval runs the update again and again
SpecLive == Init /\ [][Next]_vars /\ WF_vars(Tick /\ UNCHANGED view)

\* ---------------------------------------------------------- client views
\* The joins, disconnects and spawns with what each client holds: a client
\* adds the ids of every 'add' delivered to its socket and drops the ids of
\* every 'remove'.
RECURSIVE Deliver(_, _, _)
Deliver(ids, o, c) ==
  IF o = <<>> THEN ids
  ELSE LET e == Head(o)
           got == e.ev = "emit" /\ c \in e.to
           items == Concat(e.payload)
       IN  Deliver(
             IF got /\ e.event = "add"
             THEN ids \cup { items[k].id : k \in 1..Len(items) }
             ELSE IF got /\ e.event = "remove"
             THEN ids \ { items[k] : k \in 1..Len(items) }
             ELSE ids,
             Tail(o), c)

\* every connected socket's client takes in what the handler emitted to it
Delivered ==
  view' = [c \in Conns |->
             IF conn'[c] = "connected" THEN Deliver(view[c], out', c) ELSE {}]

NextView ==
  \/ \E c \in Conns : Connect(c) /\ Delivered
  \/ \E c \in Conns, nickname \in Nicknames : Join(c, nickname) /\ Delivered
  \/ \E c \in Conns : Disconnect(c) /\ Delivered
  \/ \E draw \in RandomDraws : Spawn(draw) /\ Delivered

SpecView == Init /\ [][NextView]_vars

\* ----------------------------------------------------------- change feed
\* The listeners on their own: Composite.add and Composite.remove called on
\* static and dynamic with one body or with an array of bodies.

\* bodies the calls are made with: ids TerrainId+1 .. TerrainId+MaxFeed,
\* bags on even ids and players on odd ids
FeedBody(id) ==
  IF id % 2 = 0 THEN createBag(id, 0, 0, 0, 0, 0) ELSE createPlayer(id, "bob")

FeedIds == (TerrainId + 1)..(TerrainId + MaxFeed)

IsBag(id) == id % 2 = 0

\* arrays of up to MaxBatch bodies of one kind, without repetition
FeedArrays ==
  { ids \in UNION { [1..n -> FeedIds] : n \in 0..MaxBatch } :
      /\ \A i, j \in 1..Len(ids) : i # j => ids[i] # ids[j]
      /\ \A i, j \in 1..Len(ids) : IsBag(ids[i]) = IsBag(ids[j]) }

FeedObjects ==
  { One(FeedBody(id)) : id \in FeedIds }
    \cup { Many([i \in 1..Len(ids) |-> FeedBody(ids[i])]) : ids \in FeedArrays \ {<<>>} }

\* bags go to static, players to dynamic
IntoStatic(object) == Concat(object)[1].shape = "bag"

InitFeed ==
  /\ known = <<Terrain>>
  /\ static = <<>>
  /\ dynamic = <<>>
  /\ socketIds = {}
  /\ player = [c \in Conns |-> Undefined]
  /\ conn = [c \in Conns |-> "connected"]
  /\ nextId = TerrainId + MaxFeed + 1
  /\ out = <<>>
  /\ removed = {}
  /\ view = [c \in Conns |-> {}]

\* Composite.add(static, object) or Composite.add(dynamic, object), with the
\* afterAdd listener
StoreAdd(object) ==
  /\ Ids(Concat(object)) \cap (Ids(static) \cup Ids(dynamic)) = {}
  /\ IF IntoStatic(object)
     THEN static' = CompositeAdd(static, object) /\ UNCHANGED dynamic
     ELSE dynamic' = CompositeAdd(dynamic, object) /\ UNCHANGED static
  /\ out' = << afterAdd(object, Connected) >>
  /\ removed' = removed \ Ids(Concat(object))
  /\ UNCHANGED <<known, socketIds, player, conn, nextId>>

\* Composite.remove(static, object) or Composite.remove(dynamic, object), with
\* the afterRemove listener
StoreRemove(object) ==
  /\ IF IntoStatic(object)
     THEN static' = CompositeRemove(static, object) /\ UNCHANGED dynamic
     ELSE dynamic' = CompositeRemove(dynamic, object) /\ UNCHANGED static
  /\ out' = << afterRemove(object, Connected) >>
  /\ removed' = removed \cup Ids(Concat(object))
  /\ UNCHANGED <<known, socketIds, player, conn, nextId>>

NextFeed ==
  \/ \E object \in FeedObjects : StoreAdd(object) /\ UNCHANGED view
  \/ \E object \in FeedObjects : StoreRemove(object) /\ UNCHANGED view

SpecFeed == InitFeed /\ [][NextFeed]_vars

\* -------------------------------------------------------------- rounding
\* The rounding of the regular update on its own: a position coordinate and
\* an angle are rounded, and the result is rounded again.

\* eighths: ties of Math.round (x.5) and of the angle rounding (x.xx5)
RoundInputs == { k * (Scale \div 8) : k \in -MaxRound..MaxRound }

InitRound ==
  /\ known = <<Terrain>>
  /\ static = <<>>
  /\ dynamic = <<>>
  /\ socketIds = {}
  /\ player = [c \in Conns |-> Undefined]
  /\ conn = [c \in Conns |-> "idle"]
  /\ nextId = TerrainId + 1
  /\ out = <<>>
  /\ removed = {}
  /\ view = [c \in Conns |-> {}]

\* a body's position.x and angle, not yet rounded
Sample(x, angle) ==
  /\ out' = << [ev |-> "round", raw |-> [x |-> x, r |-> angle], vals |-> <<>>] >>
  /\ UNCHANGED <<known, static, dynamic, socketIds, player, conn, nextId, removed>>

\* x: Math.round(x), r: Math.round(r * 100) / 100, of the last values
Round ==
  /\ out # <<>>
  /\ Len(out[1].vals) < 2
  /\ LET last == IF out[1].vals = <<>> THEN out[1].raw
                 ELSE out[1].vals[Len(out[1].vals)]
         next == [x |-> MathRound(last.x), r |-> RoundAngle(last.r)]
     IN  out' = << [out[1] EXCEPT !.vals = Append(@, next)] >>
  /\ UNCHANGED <<known, static, dynamic, socketIds, player, conn, nextId, removed>>

NextRound ==
  \/ \E x \in RoundInputs, angle \in RoundInputs : Sample(x, angle) /\ UNCHANGED view
  \/ Round /\ UNCHANGED view

SpecRound == InitRound /\ [][NextRound]_vars

\* ------------------------------------------------------ reading the trace
IsEmit(e, event) == e.ev = "emit" /\ e.event = event

\* the private 'add' of a join handler
IsSnapshot(e) == IsEmit(e, "add") /\ e.via = "socket"

\* the broadcast 'add' of afterAdd
IsPublicAdd(e) == IsEmit(e, "add") /\ e.via = "io"

Items(e) == Concat(e.payload)

\* ids an 'add' carries, ids an 'update' carries, ids a 'remove' carries
AddIds(e) == { Items(e)[k].id : k \in 1..Len(Items(e)) }
UpdateIds(e) == { Items(e)[k].i : k \in 1..Len(Items(e)) }
RemoveIds(e) == { Items(e)[k] : k \in 1..Len(Items(e)) }

Where(o, test(_)) == { i \in 1..Len(o) : test(o[i]) }

IsBind(e) == e.ev = "bind"
IsSendId(e) == e.ev = "sendId"
IsInsert(e) == e.ev = "insert"
IsRemoveEmit(e) == IsEmit(e, "remove")
IsUpdate(e) == IsEmit(e, "update")

\* ------------------------------------------------------------------- C1
\* C1: the private 'add' snapshot of a join lists only bodies that were in
\* static or dynamic before the handler ran, never the new player's id; the
\* joining socket gets that id in the broadcast 'add' that follows it.
C1_Step ==
  \A s \in Where(out', IsSnapshot) :
    /\ AddIds(out'[s]) \subseteq Ids(static) \cup Ids(dynamic)
    /\ \A b \in Where(out', IsBind) :
         /\ out'[b].id \notin AddIds(out'[s])
         /\ \E a \in Where(out', IsPublicAdd) :
              /\ a > s
              /\ AddIds(out'[a]) = {out'[b].id}
              /\ out'[s].to \subseteq out'[a].to

C1_SnapshotExcludesSelf == [][C1_Step]_vars

C1_Witness ==
  \E s \in Where(out, IsSnapshot) :
    /\ Len(Items(out[s])) >= 2
    /\ \E a \in Where(out, IsPublicAdd) : a > s

\* ------------------------------------------------------------------- C2
\* C2: a join handler records the binding, then returns the id, then sends
\* the private snapshot (when there is one), then inserts the player and
\* broadcasts its 'add'; nothing is emitted between snapshot and broadcast.
C2_JoinOrder ==
  (Where(out, IsBind) \cup Where(out, IsSendId) \cup Where(out, IsSnapshot) # {})
  => \E b \in Where(out, IsBind), r \in Where(out, IsSendId),
        n \in Where(out, IsInsert), a \in Where(out, IsPublicAdd) :
       /\ Where(out, IsBind) = {b}
       /\ Where(out, IsSendId) = {r}
       /\ Where(out, IsInsert) = {n}
       /\ Where(out, IsPublicAdd) = {a}
       /\ Where(out, IsRemoveEmit) = {}
       /\ Cardinality(Where(out, IsSnapshot)) <= 1
       /\ b < r /\ r < n /\ n < a
       /\ out[r].id = out[b].id /\ out[r].to = out[b].socket
       /\ out[n].id = out[b].id /\ out[n].into = "dynamic"
       /\ out[a].payload.kind = "one" /\ AddIds(out[a]) = {out[b].id}
       /\ \A s \in Where(out, IsSnapshot) :
            /\ r < s /\ s < n
            /\ out[s].to = {out[b].socket}
            /\ a = s + 2

C2_Witness ==
  /\ Where(out, IsSnapshot) # {}
  /\ Where(out, IsBind) # {}
  /\ Where(out, IsPublicAdd) # {}

\* ------------------------------------------------------------------- C3
\* the players of dynamic that socketIds binds to socket c
PlayersOf(c) ==
  { i \in 1..Len(dynamic) : [player |-> dynamic[i].id, socket |-> c] \in socketIds }

\* C3: a socket has at most one player body in dynamic (a second join on a
\* joined socket creates nothing).
C3_OnePlayerPerConnection == \A c \in Conns : Cardinality(PlayersOf(c)) <= 1

\* ------------------------------------------------------------------- C4
\* C4: the disconnect of a joined socket removes its player from dynamic and
\* nothing else, broadcasts one 'remove' with that id, and leaves no binding
\* of that socket in socketIds.
C4_Step ==
  \A c \in Conns :
    (conn[c] = "connected" /\ conn'[c] = "closed" /\ player[c] # Undefined)
    => /\ player[c] \in Ids(dynamic)
       /\ dynamic' = SelectSeq(dynamic, LAMBDA b : b.id # player[c])
       /\ static' = static /\ known' = known
       /\ \E m \in Where(out', IsRemoveEmit) :
            /\ Where(out', IsRemoveEmit) = {m}
            /\ out'[m].payload = One(player[c])
       /\ \A e \in socketIds' : e.socket # c

C4_DisconnectRemovesBinding == [][C4_Step]_vars

\* ------------------------------------------------------------------- C5
\* C5: the disconnect of a socket that never joined emits nothing and
\* changes neither static nor dynamic nor socketIds.
C5_Step ==
  \A c \in Conns :
    (conn[c] = "connected" /\ conn'[c] = "closed" /\ player[c] = Undefined)
    => /\ out' = <<>>
       /\ UNCHANGED <<known, static, dynamic, socketIds>>

C5_DisconnectUnjoinedNoOp == [][C5_Step]_vars

C5_Witness ==
  \E c \in Conns :
    /\ conn[c] = "closed" /\ player[c] = Undefined
    /\ out = <<>>
    /\ dynamic # <<>> /\ socketIds # {}

\* ------------------------------------------------------------------- C6
AwakeIds == { dynamic[i].id : i \in { k \in 1..Len(dynamic) : ~dynamic[k].isSleeping } }

\* C6: an 'update' has one record for each awake body of dynamic and no
\* other record: no sleeping body, no static body, no known body.
C6_UpdateIsAwakeDynamic ==
  \A u \in Where(out, IsUpdate) :
    /\ UpdateIds(out[u]) = AwakeIds
    /\ Len(Items(out[u])) = Cardinality(AwakeIds)
    /\ UpdateIds(out[u]) \cap (Ids(static) \cup Ids(known)) = {}

C6_Witness ==
  \E u \in Where(out, IsUpdate) :
    /\ Len(Items(out[u])) = 1
    /\ Len(dynamic) = 2
    /\ static # <<>>

\* ------------------------------------------------------------------- C7
\* C7: no 'add' (broadcast or private snapshot) and no 'remove' carries the
\* id of a known body.
C7_KnownNeverAnnounced ==
  /\ \A a \in Where(out, LAMBDA e : IsEmit(e, "add")) :
       AddIds(out[a]) \cap Ids(known) = {}
  /\ \A m \in Where(out, IsRemoveEmit) :
       RemoveIds(out[m]) \cap Ids(known) = {}

C7_Witness ==
  /\ known # <<>>
  /\ \E s \in Where(out, IsSnapshot) : Items(out[s]) # <<>>
  /\ removed # {}

\* ------------------------------------------------------------------- C8
\* C8: a broadcast 'add' or 'remove' about exactly one body carries a bare
\* record or id, one about two or more carries a sequence.
C8_SingularPlural ==
  \A m \in Where(out, LAMBDA e : IsPublicAdd(e) \/ IsRemoveEmit(e)) :
    /\ Len(Items(out[m])) = 1 => out[m].payload.kind = "one"
    /\ Len(Items(out[m])) >= 2 => out[m].payload.kind = "many"

\* ------------------------------------------------------------------- C9
\* C9: an id is in at most one of known, static and dynamic, and an id that
\* was removed is in no 'add' and no 'update' until it is added again.
C9_OneCategoryAndGone ==
  /\ Ids(known) \cap Ids(static) = {}
  /\ Ids(known) \cap Ids(dynamic) = {}
  /\ Ids(static) \cap Ids(dynamic) = {}
  /\ \A a \in Where(out, LAMBDA e : IsEmit(e, "add")) :
       AddIds(out[a]) \cap removed = {}
  /\ \A u \in Where(out, IsUpdate) : UpdateIds(out[u]) \cap removed = {}

C9_Witness ==
  /\ removed # {}
  /\ static # <<>>
  /\ \E u \in Where(out, IsUpdate) : Items(out[u]) # <<>>

\* ------------------------------------------------------------------ C10
\* C10: the private snapshot of a join has one record for every body that
\* static and dynamic held when the handler ran, and a record has an angle
\* exactly when its shape is "player".
C10_Step ==
  /\ (Where(out', IsBind) # {} /\ static \o dynamic # <<>>)
       => Where(out', IsSnapshot) # {}
  /\ \A s \in Where(out', IsSnapshot) :
       LET recs == Items(out'[s])
           was == static \o dynamic
       IN  /\ Len(recs) = Len(was)
           /\ \A k \in 1..Len(recs) :
                /\ recs[k].id = was[k].id
                /\ recs[k].shape = was[k].shape
                /\ recs[k].position = was[k].position
                /\ ("angle" \in DOMAIN recs[k]) <=> (recs[k].shape = "player")
                /\ ("angle" \in DOMAIN recs[k]) => recs[k].angle = was[k].angle
           /\ Cardinality(AddIds(out'[s])) = Len(recs)

C10_SnapshotComplete == [][C10_Step]_vars

C10_Witness ==
  \E s \in Where(out, IsSnapshot) :
    LET recs == Items(out[s])
    IN  /\ \E k \in 1..Len(recs) : recs[k].shape = "bag" /\ "angle" \notin DOMAIN recs[k]
        /\ \E k \in 1..Len(recs) : recs[k].shape = "player" /\ "angle" \in DOMAIN recs[k]

\* ------------------------------------------------------------------ C11
\* C11: a join into a world whose static and dynamic are empty sends no
\* private 'add' at all; the one 'add' of the handler is the broadcast of
\* the new player's record.
C11_EmptyWorldNoSnapshot ==
  \A b \in Where(out, IsBind) :
    (Ids(static) \cup Ids(dynamic) = {out[b].id})
    => /\ Where(out, IsSnapshot) = {}
       /\ \E a \in Where(out, IsPublicAdd) :
            /\ Where(out, LAMBDA e : IsEmit(e, "add")) = {a}
            /\ out[a].payload.kind = "one"
            /\ out[a].payload.value.id = out[b].id
            /\ out[a].payload.value.shape = "player"
            /\ DOMAIN out[a].payload.value = {"id", "shape", "position", "angle"}

C11_Witness ==
  \E b \in Where(out, IsBind) :
    /\ Ids(static) \cup Ids(dynamic) = {out[b].id}
    /\ Where(out, IsPublicAdd) # {}

\* ------------------------------------------------------------------ C12
\* unjoined, joined or closed: where the socket c is
Phase(c) ==
  IF conn[c] = "closed" THEN "closed"
  ELSE IF player[c] = Undefined THEN "unjoined" ELSE "joined"

\* C12: a socket goes unjoined -> joined -> closed only; a join is accepted
\* in unjoined alone, and nothing leaves closed.
C12_Step ==
  \A c \in Conns :
    /\ (\E b \in Where(out', IsBind) : out'[b].socket = c) => Phase(c) = "unjoined"
    /\ Phase(c) = "closed" => Phase(c)' = "closed"
    /\ Phase(c) = "joined" => Phase(c)' \in {"joined", "closed"}
    /\ Phase(c) = "closed" =>
         /\ { e \in socketIds' : e.socket = c } \subseteq socketIds
         /\ player'[c] = player[c]

C12_Lifecycle == [][C12_Step]_vars

\* ------------------------------------------------------------------ C13
\* C13: removing a body that is not in the collection raises nothing,
\* broadcasts no 'remove' and leaves static and dynamic as they were: every
\* 'remove' that is broadcast names a body that was in a collection.
C13_Step ==
  \A m \in Where(out', IsRemoveEmit) :
    RemoveIds(out'[m]) \cap (Ids(static) \cup Ids(dynamic)) # {}

C13_AbsentRemoveSilent == [][C13_Step]_vars

\* ------------------------------------------------------------------ C17
\* C17: a spawn puts one new bag with a fresh id at the end of static,
\* broadcasts one 'add' with its bare record without angle, and leaves
\* dynamic and socketIds alone, connected sockets or not; x is in
\* [-400, 400], y in [-100, 500], points in 0..10, sword and shield in 0..4.
C17_Step ==
  static' # static =>
    /\ Len(static') = Len(static) + 1
    /\ SubSeq(static', 1, Len(static)) = static
    /\ dynamic' = dynamic /\ socketIds' = socketIds /\ player' = player
    /\ LET bag == static'[Len(static')]
       IN  /\ bag.id \notin Ids(known) \cup Ids(static) \cup Ids(dynamic) \cup removed
           /\ bag.shape = "bag"
           /\ bag.position.x \in { k * Scale : k \in -400..400 }
           /\ bag.position.y \in { k * Scale : k \in -100..500 }
           /\ bag.points \in { k * Scale : k \in 0..10 }
           /\ bag.sword \in { k * Scale : k \in 0..4 }
           /\ bag.shield \in { k * Scale : k \in 0..4 }
           /\ \E a \in Where(out', IsPublicAdd) :
                /\ Where(out', LAMBDA e : e.ev = "emit") = {a}
                /\ out'[a].payload =
                     One([id |-> bag.id, shape |-> "bag", position |-> bag.position])
                /\ out'[a].to = Connected

C17_SpawnOneBag == [][C17_Step]_vars

C17_Witness ==
  /\ Len(static) = 2
  /\ Connected = {}
  /\ \E a \in Where(out, IsPublicAdd) :
       out[a].payload.value.id = static[2].id /\ out[a].to = {}

\* ------------------------------------------------------------------ C18
\* C18: every player of dynamic was created by a socket that is joined and
\* not closed (socketIds records the socket of each join).
C18_NoOrphanedPlayers ==
  \A i \in 1..Len(dynamic) :
    \E e \in socketIds :
      /\ e.player = dynamic[i].id
      /\ conn[e.socket] = "connected"

\* ------------------------------------------------------------------ C19
\* C19: socketIds has one entry for each socket that is joined and not
\* closed and none for any other socket, and every entry's player is in
\* dynamic.
C19_SessionMapExact ==
  /\ \A c \in Conns :
       Cardinality({ e \in socketIds : e.socket = c })
         = IF Phase(c) = "joined" THEN 1 ELSE 0
  /\ \A e \in socketIds : e.player \in Ids(dynamic)

\* ------------------------------------------------------------------ C14
\* C14: rounding a position to the nearest integer and an angle to two
\* decimals, and rounding the result again, gives what one rounding gave.
C14_RoundingIdempotent ==
  \A i \in 1..Len(out) :
    (out[i].ev = "round" /\ Len(out[i].vals) = 2)
    => out[i].vals[2] = out[i].vals[1]

C14_Witness ==
  /\ out # <<>>
  /\ out[1].ev = "round"
  /\ Len(out[1].vals) = 2
  /\ out[1].raw.x = -(Scale \div 2)
  /\ out[1].vals[1].x = 0
  /\ out[1].vals[1].r # out[1].raw.r

\* ------------------------------------------------------------------ C16
BodyIds == (TerrainId + 1)..(TerrainId + MaxBodies)

InUpdate(id) == \E u \in Where(out, IsUpdate) : id \in UpdateIds(out[u])

\* C16: with the update interval running, a body that stays in dynamic and
\* awake gets into an 'update', and every tick emits one 'update', a
\* sequence, also when no body is awake.
C16_AwakeEventuallyUpdated ==
  /\ \A id \in BodyIds : (id \in AwakeIds) ~> (id \notin AwakeIds \/ InUpdate(id))
  /\ [][Tick => /\ Len(out') = 1
                /\ IsUpdate(out'[1])
                /\ out'[1].payload.kind = "many"
                /\ out'[1].volatile]_vars

C16_Witness ==
  /\ \E id \in AwakeIds : InUpdate(id)
  /\ \E i \in 1..Len(dynamic) : dynamic[i].isSleeping

\* ------------------------------------------------------------------ C15
\* C15: for a socket that has joined and is connected, the ids its client
\* holds after all 'add' and 'remove' messages delivered to it are the ids
\* of static and dynamic.
C15_ViewIsWorld ==
  \A c \in Conns :
    Phase(c) = "joined" => view[c] = Ids(static) \cup Ids(dynamic)

C15_Witness ==
  \E c \in Conns :
    /\ Phase(c) = "joined"
    /\ removed # {}
    /\ static # <<>>
    /\ Cardinality(view[c]) >= 2
    /\ view[c] = Ids(static) \cup Ids(dynamic)

\* ------------------------------------------------------------------ C20
IsAdd(e) == IsEmit(e, "add")

\* ids the earlier 'add' messages of the same handler brought to socket c
EarlierAdds(o, i, c) ==
  UNION { AddIds(o[j]) : j \in { k \in Where(o, IsAdd) : k < i /\ c \in o[k].to } }

\* C20: no socket gets an 'add' (broadcast or private snapshot) with an id
\* that an earlier 'add' brought it and no 'remove' has taken back since.
C20_Step ==
  \A i \in Where(out', IsAdd) :
    \A c \in out'[i].to :
      AddIds(out'[i]) \cap (view[c] \cup EarlierAdds(out', i, c)) = {}

C20_NoRepeatedAdd == [][C20_Step]_vars

====
